---- MODULE Spec2Model ----
(***************************************************************************)
(* Batch verification of anonymous deposits: precompiles/src/anon/deposit.rs *)
(*                                                                         *)
(* Spec        one decoded payload: Deposit::new, then either gas or       *)
(*             check, whose per-request verifications run as rayon tasks   *)
(*             that finish in any order.                                   *)
(* SpecParams  concurrent first use of the lazy_static PARAMS.             *)
(***************************************************************************)
EXTENDS Integers, Sequences, FiniteSets, TLC

\* Longest sequence of a payload explored.
MaxLen == 2

\* Number of threads that race for the first use of PARAMS.
MaxThreads == 4

DEPOSIT_VERIFY_PER_GAS == 50000

(***************************************************************************)
(* Field values.  A 32-byte string, a byte blob and a U256 are drawn from   *)
(* small sets that hold a value of every class the code tells apart.        *)
(***************************************************************************)

\* [u8; 32] commitments: 0 is a canonical BN254 scalar, 1 is not (>= modulus).
Bytes32 == {0, 1}

\* proof blobs: 0 does not deserialize, 1 does.  memo blobs: 0 is the empty blob.
Blobs == {0, 1}

\* binding hashes
Hashes == {0}

\* U256 amounts as two 128-bit halves: 0, 1 and 2^128.
U256s == {[lo |-> 0, hi |-> 0], [lo |-> 1, hi |-> 0], [lo |-> 0, hi |-> 1]}

Min(S) == CHOOSE x \in S : \A y \in S : x <= y

\* ethabi::decode of the six arrays; ok = FALSE is a payload that does not parse.
MalformedPayload ==
    [ok |-> FALSE, outputs |-> <<>>, assets |-> <<>>, amounts |-> <<>>,
     proofs |-> <<>>, memos |-> <<>>, hash |-> <<>>]

\* Payloads of N requests, every field of every request drawn freely.
BatchPayloads ==
    UNION {[ok : {TRUE}, outputs : [1..n -> Bytes32], assets : [1..n -> Bytes32],
            amounts : [1..n -> U256s], proofs : [1..n -> Blobs],
            memos : [1..n -> Blobs], hash : [1..n -> Hashes]] : n \in 0..MaxLen}

Fill(n, v) == [i \in 1..n |-> v]

\* Payloads whose six arrays have any six lengths (contents fixed).
RaggedPayloads ==
    {[ok |-> TRUE, outputs |-> Fill(l[1], 0), assets |-> Fill(l[2], 0),
      amounts |-> Fill(l[3], [lo |-> 0, hi |-> 0]), proofs |-> Fill(l[4], 1),
      memos |-> Fill(l[5], 0), hash |-> Fill(l[6], 0)] : l \in [1..6 -> 0..MaxLen]}

Payloads == BatchPayloads \cup RaggedPayloads \cup {MalformedPayload}

NoDeposit == [none |-> TRUE]

(***************************************************************************)
(* Deposit::require, Deposit::new, Deposit::gas                            *)
(***************************************************************************)

\* require without the comparison of memos
require_NoMemos(d) ==
    LET len == Len(d.outputs) IN
    IF /\ len = Len(d.assets)
       /\ len = Len(d.amounts)
       /\ len = Len(d.proofs)
       /\ len = Len(d.hash)
    THEN "Ok" ELSE "WrongLengthOfArguments"

require(d) ==
    LET len == Len(d.outputs) IN
    IF /\ len = Len(d.assets)
       /\ len = Len(d.amounts)
       /\ len = Len(d.proofs)
       /\ len = Len(d.memos)
       /\ len = Len(d.hash)
    THEN "Ok" ELSE "WrongLengthOfArguments"

\* Deposit::new returning the struct without running require on it
new_NoRequire(w) ==
    IF ~w.ok THEN [res |-> "ParseDataFailed", dep |-> NoDeposit]
    ELSE [res |-> "Ok",
          dep |-> [outputs |-> w.outputs, assets |-> w.assets, amounts |-> w.amounts,
                   proofs |-> w.proofs, memos |-> w.memos, hash |-> w.hash]]

\* Deposit::new: [res, dep]
new(w) ==
    IF ~w.ok THEN [res |-> "ParseDataFailed", dep |-> NoDeposit]
    ELSE LET r == [outputs |-> w.outputs, assets |-> w.assets, amounts |-> w.amounts,
                   proofs |-> w.proofs, memos |-> w.memos, hash |-> w.hash]
         IN  IF require(r) = "Ok" THEN [res |-> "Ok", dep |-> r]
             ELSE [res |-> require(r), dep |-> NoDeposit]

\* gas with the constant added instead of multiplied
gas_Plus(d) == DEPOSIT_VERIFY_PER_GAS + Len(d.assets)

\* u64 product; a Vec cannot be long enough to overflow it
gas(d) == DEPOSIT_VERIFY_PER_GAS * Len(d.assets)

(***************************************************************************)
(* The conversions verify_ttoa and its caller apply to a request's fields. *)
(***************************************************************************)

\* U256::as_u128: panics ("Integer overflow when casting to u128") unless the
\* high half is zero
as_u128(a) == IF a.hi = 0 THEN [panic |-> FALSE, v |-> a.lo]
              ELSE [panic |-> TRUE, v |-> 0]

\* BN254Scalar::from_bytes: only a canonical encoding is a scalar
BN254Scalar_from_bytes(b) ==
    IF b = 0 THEN [ok |-> TRUE, v |-> [scalar |-> b]] ELSE [ok |-> FALSE, v |-> [scalar |-> 0]]

\* bincode::deserialize of the proof blob
bincode_deserialize(p) ==
    IF p = 1 THEN [ok |-> TRUE, v |-> [proof |-> p]] ELSE [ok |-> FALSE, v |-> [proof |-> 0]]

\* utils::bytes_asset: the asset type of the 32 bytes, or the asset decode error
bytes_asset(a) ==
    IF a = 0 THEN [ok |-> TRUE, v |-> [asset |-> a]] ELSE [ok |-> FALSE, v |-> [asset |-> 0]]

\* AxfrOwnerMemo::from_bytes
AxfrOwnerMemo_from_bytes(b) == [memo |-> b]

\* the empty Vec handed to AxfrOwnerMemo::from_bytes
EmptyBlob == 0

\* Sha3_512::new() followed by update(hash)
Sha3_512_update(h) == [absorbed |-> <<h>>]

\* the value VerifierParams::get_ar_to_abar() builds
VerifierParams == [circuit |-> "ar_to_abar"]

\* verify_ar_to_abar_note: an opaque relation on (params, note, transcript); the
\* one used here depends on every field of the note and on the transcript
verify_ar_to_abar_note(params, note, hasher) ==
    /\ params = VerifierParams
    /\ (note.asset.asset + note.amount + note.output.commitment.scalar
          + note.memo.memo + hasher.absorbed[1]) % 2 = 0

NoNote == {}

\* verify_ttoa with the asset decoded before the commitment and the proof
verify_ttoa_AssetFirst(params, asset, amount, commitment, proof, hash) ==
    LET a == bytes_asset(asset)
        c == BN254Scalar_from_bytes(commitment)
        p == bincode_deserialize(proof)
        note == [asset |-> a.v, amount |-> amount, output |-> [commitment |-> c.v],
                 proof |-> p.v, memo |-> AxfrOwnerMemo_from_bytes(EmptyBlob)]
    IN  IF ~a.ok THEN [res |-> "AssetDecodeError", notes |-> NoNote]
        ELSE IF ~c.ok THEN [res |-> "ParseDataFailed", notes |-> NoNote]
        ELSE IF ~p.ok THEN [res |-> "ProofDecodeFailed", notes |-> NoNote]
        ELSE IF verify_ar_to_abar_note(params, note, Sha3_512_update(hash))
             THEN [res |-> "Ok", notes |-> {note}]
             ELSE [res |-> "ProofVerificationFailed", notes |-> {note}]

\* verify_ttoa: [res, notes], notes being what it handed to the oracle
verify_ttoa(params, asset, amount, commitment, proof, hash) ==
    LET c == BN254Scalar_from_bytes(commitment)
        p == bincode_deserialize(proof)
        a == bytes_asset(asset)
        note == [asset |-> a.v, amount |-> amount, output |-> [commitment |-> c.v],
                 proof |-> p.v, memo |-> AxfrOwnerMemo_from_bytes(EmptyBlob)]
    IN  IF ~c.ok THEN [res |-> "ParseDataFailed", notes |-> NoNote]
        ELSE IF ~p.ok THEN [res |-> "ProofDecodeFailed", notes |-> NoNote]
        ELSE IF ~a.ok THEN [res |-> "AssetDecodeError", notes |-> NoNote]
        ELSE IF verify_ar_to_abar_note(params, note, Sha3_512_update(hash))
             THEN [res |-> "Ok", notes |-> {note}]
             ELSE [res |-> "ProofVerificationFailed", notes |-> {note}]

\* the number of tuples the zip of outputs, assets, amounts, proofs, hash yields
ZipLen(d) ==
    Min({Len(d.outputs), Len(d.assets), Len(d.amounts), Len(d.proofs), Len(d.hash)})

\* the closure of check's map, with the request's memo bound into the note
Closure_Memo(params, d, i) ==
    LET amt == as_u128(d.amounts[i])
        r == verify_ttoa(params, d.assets[i], amt.v, d.outputs[i], d.proofs[i], d.hash[i])
        bind(n) == [n EXCEPT !.memo = AxfrOwnerMemo_from_bytes(d.memos[i])]
    IN  IF amt.panic THEN [res |-> "panic", notes |-> NoNote]
        ELSE IF r.notes = NoNote THEN r
        ELSE LET n == bind(CHOOSE x \in r.notes : TRUE) IN
             [res |-> IF verify_ar_to_abar_note(params, n, Sha3_512_update(d.hash[i]))
                      THEN "Ok" ELSE "ProofVerificationFailed",
              notes |-> {n}]

\* the closure of check's map on the i-th tuple of the zip: the arguments are
\* evaluated first, and amount.as_u128() may panic before verify_ttoa is entered
Closure(params, d, i) ==
    LET amt == as_u128(d.amounts[i]) IN
    IF amt.panic THEN [res |-> "panic", notes |-> NoNote]
    ELSE verify_ttoa(params, d.assets[i], amt.v, d.outputs[i], d.proofs[i], d.hash[i])

\* the collected Vec in the order the tasks finished
collect_ByFinish(results, order) == [k \in 1..Len(order) |-> results[order[k]]]

\* collect() of an indexed parallel iterator: position i holds request i's result
collect(results, order) == results

\* `for r in res { r? }; Ok(())`
RECURSIVE for_r_in_res(_)
for_r_in_res(res) ==
    IF res = <<>> THEN "Ok"
    ELSE IF Head(res) # "Ok" THEN Head(res)
    ELSE for_r_in_res(Tail(res))

\* collecting into a Result: over as soon as one task has returned an error
AllCollected_ShortCircuit(results) ==
    \/ \A i \in DOMAIN results : results[i] # "pending"
    \/ \E i \in DOMAIN results : results[i] \notin {"pending", "panic", "Ok"}

\* collect() into a Vec returns once every task has produced its result
AllCollected(results) == \A i \in DOMAIN results : results[i] # "pending"

(***************************************************************************)
(* State                                                                   *)
(***************************************************************************)
VARIABLES
    data,         \* the payload handed to Deposit::new, as ethabi decodes it
    newResult,    \* "None" before Deposit::new, then "Ok" or its error
    deposit,      \* the Deposit that new returned, or NoDeposit
    moved,        \* "no", or the method the Deposit was moved into: "gas", "check"
    gasResult,    \* what gas returned, -1 before
    pc,           \* check: "idle", "running", "returned", "panicked"
    tasks,        \* check: per index "pending", "panic" or the closure's Result
    finished,     \* check: the indices in the order their tasks finished
    checkResult,  \* what check returned, "None" before and when it unwinds
    notes,        \* every note handed to verify_ar_to_abar_note
    once,         \* PARAMS: "INCOMPLETE", "RUNNING", "COMPLETE", "POISONED"
    cell,         \* PARAMS: the lazy cell, [some |-> FALSE] until it is set
    initRuns,     \* PARAMS: how many times the initializer was entered
    getOk,        \* whether VerifierParams::get_ar_to_abar() returns Ok
    thr,          \* SpecParams: where each thread is in its first use of PARAMS
    seen          \* SpecParams: what each thread read from the cell

vars == <<data, newResult, deposit, moved, gasResult, pc, tasks, finished,
          checkResult, notes, once, cell, initRuns, getOk, thr, seen>>

hostVars == <<data, newResult, deposit, moved, gasResult>>
checkVars == <<pc, tasks, finished, checkResult, notes>>
paramVars == <<once, cell, initRuns, getOk>>
threadVars == <<thr, seen>>

NoCell == [some |-> FALSE, runs |-> 0]

Init ==
    /\ data \in Payloads
    /\ newResult = "None"
    /\ deposit = NoDeposit
    /\ moved = "no"
    /\ gasResult = -1
    /\ pc = "idle"
    /\ tasks = <<>>
    /\ finished = <<>>
    /\ checkResult = "None"
    /\ notes = {}
    /\ once = "INCOMPLETE"
    /\ cell = NoCell
    /\ initRuns = 0
    /\ getOk = TRUE
    /\ thr = <<>>
    /\ seen = <<>>

(***************************************************************************)
(* The host: Deposit::new, then gas(self) or check(self)                   *)
(***************************************************************************)

New ==
    /\ newResult = "None"
    /\ newResult' = new(data).res
    /\ deposit' = new(data).dep
    /\ UNCHANGED <<data, moved, gasResult>>
    /\ UNCHANGED <<checkVars, paramVars, threadVars>>

\* whether the host still owns the Deposit: gas and check take self by value
Live == deposit # NoDeposit /\ moved = "no"

Gas ==
    /\ Live
    /\ gasResult' = gas(deposit)
    /\ moved' = "gas"
    /\ UNCHANGED <<data, newResult, deposit>>
    /\ UNCHANGED <<checkVars, paramVars, threadVars>>

\* check(self): the parallel iterator is built over the zip
CheckStart ==
    /\ Live
    /\ moved' = "check"
    /\ pc' = "running"
    /\ tasks' = [i \in 1..ZipLen(deposit) |-> "pending"]
    /\ finished' = <<>>
    /\ UNCHANGED <<data, newResult, deposit, gasResult, checkResult, notes>>
    /\ UNCHANGED <<paramVars, threadVars>>

\* One task of the map: &PARAMS (initialized by the first task to get there),
\* then the closure.  A panicking closure records "panic".
RunTask(i) ==
    /\ pc = "running"
    /\ i \in DOMAIN tasks
    /\ tasks[i] = "pending"
    /\ once \in {"INCOMPLETE", "COMPLETE"}
    /\ LET first == once = "INCOMPLETE"
           p == IF first THEN [some |-> TRUE, runs |-> initRuns + 1] ELSE cell
           r == Closure(VerifierParams, deposit, i)
       IN  /\ once' = "COMPLETE"
           /\ cell' = p
           /\ initRuns' = IF first THEN initRuns + 1 ELSE initRuns
           /\ tasks' = [tasks EXCEPT ![i] = r.res]
           /\ notes' = notes \cup r.notes
    /\ finished' = Append(finished, i)
    /\ UNCHANGED <<pc, checkResult, getOk>>
    /\ UNCHANGED <<hostVars, threadVars>>

Panicked == \E i \in DOMAIN tasks : tasks[i] = "panic"

\* collect() has every result: the for loop returns the first Err, or Ok
Collect ==
    /\ pc = "running"
    /\ AllCollected(tasks)
    /\ ~Panicked
    /\ checkResult' = for_r_in_res(collect(tasks, finished))
    /\ pc' = "returned"
    /\ UNCHANGED <<tasks, finished, notes>>
    /\ UNCHANGED <<hostVars, paramVars, threadVars>>

\* rayon resumes a task's panic in the caller: check unwinds and returns
\* nothing.  Tasks not yet begun when the panic is seen may never run.
Unwind ==
    /\ pc = "running"
    /\ Panicked
    /\ pc' = "panicked"
    /\ UNCHANGED <<tasks, finished, checkResult, notes>>
    /\ UNCHANGED <<hostVars, paramVars, threadVars>>

Next ==
    \/ New
    \/ Gas
    \/ CheckStart
    \/ \E i \in DOMAIN tasks : RunTask(i)
    \/ Collect
    \/ Unwind

Spec == Init /\ [][Next]_vars

(***************************************************************************)
(* SpecParams: MaxThreads threads make their first use of PARAMS.          *)
(* lazy_static keeps the value in a cell guarded by a Once:                *)
(*   call_once(|| cell.set(Some(get_ar_to_abar().unwrap())))               *)
(* and then reads the cell.                                                *)
(***************************************************************************)

Threads == 1..MaxThreads

InitParams ==
    /\ data = MalformedPayload
    /\ newResult = "None"
    /\ deposit = NoDeposit
    /\ moved = "no"
    /\ gasResult = -1
    /\ pc = "idle"
    /\ tasks = <<>>
    /\ finished = <<>>
    /\ checkResult = "None"
    /\ notes = {}
    /\ once = "INCOMPLETE"
    /\ cell = NoCell
    /\ initRuns = 0
    /\ getOk \in BOOLEAN
    /\ thr = [t \in Threads |-> "start"]
    /\ seen = [t \in Threads |-> "unread"]

\* a test of the state that is not one atomic step with the move to RUNNING
MayEnter_Racy(st) == st \in {"INCOMPLETE", "RUNNING"}

\* Once::call_once: the caller that moves INCOMPLETE to RUNNING runs the closure
MayEnter(st) == st = "INCOMPLETE"

\* a thread reaches call_once
CallOnce(t) ==
    /\ thr[t] = "start"
    /\ IF MayEnter(once)
       THEN /\ once' = "RUNNING"
            /\ initRuns' = initRuns + 1
            /\ thr' = [thr EXCEPT ![t] = "init"]
            /\ seen' = seen
       ELSE /\ UNCHANGED <<once, initRuns>>
            /\ \/ /\ once = "RUNNING"
                  /\ thr' = [thr EXCEPT ![t] = "wait"]
                  /\ seen' = seen
               \/ /\ once = "COMPLETE"
                  /\ thr' = [thr EXCEPT ![t] = "got"]
                  /\ seen' = [seen EXCEPT ![t] = cell]
               \/ /\ once = "POISONED"
                  /\ thr' = [thr EXCEPT ![t] = "panic"]
                  /\ seen' = seen
    /\ UNCHANGED <<cell, getOk>>
    /\ UNCHANGED <<hostVars, checkVars>>

\* the initializer: VerifierParams::get_ar_to_abar().unwrap(); a panic poisons
\* the Once
GetParams(t) ==
    /\ thr[t] = "init"
    /\ IF getOk
       THEN /\ thr' = [thr EXCEPT ![t] = "built"]
            /\ once' = once
       ELSE /\ thr' = [thr EXCEPT ![t] = "panic"]
            /\ once' = "POISONED"
    /\ UNCHANGED <<cell, initRuns, getOk, seen>>
    /\ UNCHANGED <<hostVars, checkVars>>

\* the closure stores the value in the cell
SetCell(t) ==
    /\ thr[t] = "built"
    /\ cell' = [some |-> TRUE, runs |-> initRuns]
    /\ thr' = [thr EXCEPT ![t] = "stored"]
    /\ UNCHANGED <<once, initRuns, getOk, seen>>
    /\ UNCHANGED <<hostVars, checkVars>>

\* call_once returns: the Once is COMPLETE and the initializing thread reads
Complete(t) ==
    /\ thr[t] = "stored"
    /\ once' = "COMPLETE"
    /\ thr' = [thr EXCEPT ![t] = "got"]
    /\ seen' = [seen EXCEPT ![t] = cell]
    /\ UNCHANGED <<cell, initRuns, getOk>>
    /\ UNCHANGED <<hostVars, checkVars>>

\* a thread blocked in call_once is released when the Once leaves RUNNING
Wake(t) ==
    /\ thr[t] = "wait"
    /\ \/ /\ once = "COMPLETE"
          /\ thr' = [thr EXCEPT ![t] = "got"]
          /\ seen' = [seen EXCEPT ![t] = cell]
       \/ /\ once = "POISONED"
          /\ thr' = [thr EXCEPT ![t] = "panic"]
          /\ seen' = seen
    /\ UNCHANGED <<once, cell, initRuns, getOk>>
    /\ UNCHANGED <<hostVars, checkVars>>

NextParams ==
    \E t \in Threads :
        \/ CallOnce(t)
        \/ GetParams(t)
        \/ SetCell(t)
        \/ Complete(t)
        \/ Wake(t)

SpecParams == InitParams /\ [][NextParams]_vars

(***************************************************************************)
(* Properties                                                              *)
(***************************************************************************)

Errors == {"ParseDataFailed", "ProofDecodeFailed", "AssetDecodeError",
           "ProofVerificationFailed"}

Terminated == pc \in {"returned", "panicked"}

\* how the call to check ended: its return value, or "panic" when it unwound
Outcome == IF pc = "panicked" THEN "panic" ELSE checkResult

\* the requests of the batch check was called on
Requests == 1..Len(deposit.outputs)

\* what evaluating the closure on request i yields, on its own
Single(d, i) == Closure(VerifierParams, d, i).res

\* check evaluated one request after the other, in index order, from request i
\* on: a panic of any request ends the call, else the first Err is returned
RECURSIVE SequentialFrom(_, _, _)
SequentialFrom(d, i, first) ==
    IF i > Len(d.outputs) THEN first
    ELSE LET r == Single(d, i) IN
         IF r = "panic" THEN "panic"
         ELSE SequentialFrom(d, i + 1, IF first = "Ok" THEN r ELSE first)

SequentialOutcome(d) == SequentialFrom(d, 1, "Ok")

SameLengths(w) ==
    Cardinality({Len(w.outputs), Len(w.assets), Len(w.amounts),
                 Len(w.proofs), Len(w.memos), Len(w.hash)}) = 1

FitsU128(a) == a.hi = 0

\* C1: check returns Ok exactly when each of the N verifications returns Ok; one
\* failing request makes check return an error; an empty batch returns Ok.
C1_CheckSucceedsIffAllSucceed ==
    Terminated =>
        /\ (pc = "returned" /\ checkResult = "Ok")
              <=> (\A i \in Requests : Single(deposit, i) = "Ok")
        /\ (\E i \in Requests : Single(deposit, i) # "Ok")
              => (pc = "returned" /\ checkResult \in Errors)
        /\ Requests = {} => (pc = "returned" /\ checkResult = "Ok")

\* C2: gas of a decoded batch is 50000 times the request count, the request
\* count being the length of each of the six sequences of the payload.
C2_GasIsCostTimesN ==
    gasResult # -1 =>
        /\ \A n \in {Len(data.outputs), Len(data.assets), Len(data.amounts),
                     Len(data.proofs), Len(data.memos), Len(data.hash)} :
               gasResult = 50000 * n
        /\ Len(data.outputs) = 0 => gasResult = 0
        /\ Len(data.outputs) = 1 => gasResult = 50000
        /\ Len(data.outputs) = 2 => gasResult = 100000

C2_Witness == gasResult = 100000 /\ Len(data.memos) = 2

\* C3: validation passes exactly when the six sequences have one length, and
\* otherwise fails with WrongLengthOfArguments, whichever sequence differs.
C3_RequireIffSameLengths ==
    (newResult # "None" /\ data.ok) =>
        /\ newResult = "Ok" <=> SameLengths(data)
        /\ ~SameLengths(data) => newResult = "WrongLengthOfArguments"

C3_Witness ==
    /\ newResult = "WrongLengthOfArguments"
    /\ Len(data.memos) > Len(data.outputs)
    /\ \A f \in {data.assets, data.amounts, data.proofs, data.hash} :
           Len(f) = Len(data.outputs)

\* C4: when some amount does not fit 128 bits, check returns an error value: it
\* neither panics nor goes on with the low 128 bits.
C4_OversizeAmountIsAnError ==
    (Terminated /\ \E i \in Requests : ~FitsU128(deposit.amounts[i]))
        => (pc = "returned" /\ checkResult \in Errors)

\* C5: how check ends (Ok, the error kind, or the panic) is the same whatever
\* the order in which the verifications finish, and is what evaluating the
\* requests one after the other in index order gives.
C5_OrderIndependent ==
    Terminated => Outcome = SequentialOutcome(deposit)

C5_Witness ==
    /\ pc = "returned"
    /\ finished = <<2, 1>>
    /\ tasks[1] \in Errors
    /\ tasks[2] \in Errors
    /\ tasks[1] # tasks[2]

\* C6: after a successful decode the batch stays available: gas can be taken
\* before check, after check ended, and taking gas leaves check callable.
C6_GasAnyTimeAfterDecode ==
    newResult = "Ok" => (pc = "running" \/ Live)

\* C8: when check returns, each of the N verifications was started and has
\* finished, also when an earlier one had failed.
C8_AllAwaitedBeforeReturn ==
    pc = "returned" =>
        /\ DOMAIN tasks = Requests
        /\ \A i \in Requests : tasks[i] = Single(deposit, i)
        /\ Len(finished) = Len(deposit.outputs)

C8_Witness ==
    /\ pc = "returned"
    /\ Len(deposit.outputs) = 2
    /\ finished = <<1, 2>>
    /\ tasks[1] \in Errors
    /\ checkResult = tasks[1]

\* the tasks in which verify_ttoa was entered and has returned
Verified(i) == i \in DOMAIN tasks /\ tasks[i] \notin {"pending", "panic"}

CommitmentOk(i) == BN254Scalar_from_bytes(deposit.outputs[i]).ok
ProofOk(i) == bincode_deserialize(deposit.proofs[i]).ok
AssetOk(i) == bytes_asset(deposit.assets[i]).ok

\* C9 as claimed: the asset is decoded before the commitment and the proof, so an
\* invalid asset gives the asset decode error whatever else is malformed, and a
\* malformed proof gives ProofDecodeFailed only when asset and commitment are valid.
C9_AssetDecodedFirst ==
    \A i \in DOMAIN tasks :
        Verified(i) =>
            /\ ~AssetOk(i) => tasks[i] = "AssetDecodeError"
            /\ tasks[i] = "ProofDecodeFailed" => (AssetOk(i) /\ CommitmentOk(i))

\* C9 amended: verify_ttoa decodes the commitment, then the proof, then the
\* asset, then calls the oracle, and returns the error of the earliest failing
\* step in that order.
C9_CommitmentProofAssetOrder ==
    \A i \in DOMAIN tasks :
        Verified(i) =>
            IF ~CommitmentOk(i) THEN tasks[i] = "ParseDataFailed"
            ELSE IF ~ProofOk(i) THEN tasks[i] = "ProofDecodeFailed"
            ELSE IF ~AssetOk(i) THEN tasks[i] = "AssetDecodeError"
            ELSE tasks[i] \in {"Ok", "ProofVerificationFailed"}

C9_Witness ==
    \E i \in DOMAIN tasks :
        /\ Verified(i)
        /\ ~AssetOk(i) /\ ~CommitmentOk(i) /\ ~ProofOk(i)
        /\ tasks[i] = "ParseDataFailed"

\* the batch d with every memo replaced by the empty blob
WithoutMemos(d) == [d EXCEPT !.memos = [i \in DOMAIN d.memos |-> EmptyBlob]]

\* C10: how check ends is a function of the batch with its memos blanked, so two
\* batches that differ only in the bytes of their memos end the same way; and
\* each note handed to the oracle carries the memo made from the empty blob.
C10_MemoIndependent ==
    /\ Terminated => Outcome = SequentialOutcome(WithoutMemos(deposit))
    /\ \A n \in notes : n.memo = AxfrOwnerMemo_from_bytes(EmptyBlob)

C10_Witness ==
    /\ pc = "returned"
    /\ \E i \in Requests :
          /\ deposit.memos[i] # EmptyBlob
          /\ tasks[i] = "Ok"
    /\ notes # {}

InitValue == [some |-> TRUE, runs |-> 1]

\* C7: under concurrent first use the initializer is entered exactly once, a
\* thread that gets the parameters reads the value that initializer stored and
\* never an unset cell, the stored value stays what it is, and when the
\* initializer fails no thread gets a value.
C7_InitializedExactlyOnce ==
    /\ initRuns <= 1
    /\ (\E t \in Threads : thr[t] # "start") => initRuns = 1
    /\ \A t \in Threads :
          /\ thr[t] = "got" => (once = "COMPLETE" /\ seen[t] = InitValue)
          /\ thr[t] # "got" => seen[t] = "unread"
    /\ once = "COMPLETE" => cell = InitValue
    /\ ~getOk => (cell = NoCell /\ \A t \in Threads : thr[t] # "got")

C7_Witness ==
    /\ \A t \in Threads : thr[t] = "got" /\ seen[t] = InitValue
    /\ initRuns = 1

\* C11: a Deposit that new returned has six sequences of one length, and new
\* gives WrongLengthOfArguments and no Deposit otherwise; so the number of
\* verifications check runs (the length of its zip) is the request count gas
\* charges for (assets.len()), and request i is made of the i-th element of
\* outputs, assets, amounts, proofs and hash.
C11_DecodedBatchHasOneLength ==
    /\ deposit # NoDeposit =>
          /\ newResult = "Ok"
          /\ SameLengths(deposit)
          /\ ZipLen(deposit) = Len(deposit.assets)
    /\ newResult = "WrongLengthOfArguments" => deposit = NoDeposit
    /\ gasResult # -1 => gasResult = 50000 * ZipLen(deposit)
    /\ pc # "idle" => DOMAIN tasks = 1..Len(deposit.assets)
    /\ pc = "returned" =>
          \A i \in DOMAIN tasks :
              tasks[i] = verify_ttoa(VerifierParams, deposit.assets[i],
                                     deposit.amounts[i].lo, deposit.outputs[i],
                                     deposit.proofs[i], deposit.hash[i]).res

\* check has returned on a batch of two requests that end differently
C11_Witness ==
    /\ pc = "returned"
    /\ Len(deposit.assets) = 2
    /\ Len(tasks) = 2
    /\ tasks[1] = "Ok"
    /\ tasks[2] = "AssetDecodeError"

====
